---- MODULE Spec2Model ----
(***************************************************************************)
(* Highlight selection and assembly of ai-game-video-generator.            *)
(*                                                                         *)
(*   SpecMerge : merge_overlapping_highlights (src/src/video_concatenator) *)
(*   SpecPlan  : HighlightCompiler.plan_compilation (src/highlighter.py)   *)
(*   Spec      : concatenate_highlights (src/src/video_concatenator.py)    *)
(*   SpecSegment : process_segment (src/src/video_concatenator.py)         *)
(*   SpecMain  : async_main (src/main.py)                                  *)
(*   SpecRecent : process_recent_clips (src/src/main.py)                   *)
(*   SpecTwoRuns : two concurrent runs of concatenate_highlights           *)
(*   SpecScenario : the merge and plan_compilation on one pool             *)
(*   SpecTwoCalls : two calls of plan_compilation on one clips table       *)
(*                                                                         *)
(* Times are whole seconds, except the duration ffprobe reports for a      *)
(* segment, which is in ticks of 1/TicksPerSecond second.  A clip          *)
(* description is the sequence of the                                      *)
(* atoms that the code joins with " + ": joining two descriptions is the   *)
(* concatenation of their atom sequences.                                  *)
(***************************************************************************)
EXTENDS Integers, Sequences, FiniteSets, TLC

VARIABLES
    \* merge_overlapping_highlights
    highlights,          \* the argument of the call, as it was when the call was made
    heap_after,          \* the dicts once the call has returned, and which of them it returned
    merged_highlights,   \* its return value
    remerged_highlights, \* the return value of a second call on the first result
    mpc,                 \* "idle" | "call" | "merged" | "remerged"
    \* HighlightCompiler.plan_compilation
    db_clips,            \* the rows of the clips table
    include_used_clips,  \* self.include_used_clips
    target_duration,     \* self.target_duration, in seconds
    all_highlights,      \* the pool, candidates leave it as they are selected
    selected_highlights,
    current_duration,
    i,                   \* index of the first pass (0-based, as in the code)
    remaining_highlights,\* what the second pass has still to iterate over
    phase2,              \* TRUE once the second pass has been entered
    plan,                \* the CompilationPlan returned, or NoPlan
    raised,              \* the exception plan_compilation raised, or "none"
    ppc,                 \* "idle" | "start" | "phase1" | "phase2" | "sort" | "done" | "raised"
    \* concatenate_highlights
    json_items,          \* the highlight items of the JSON document in highlights_json_path
    generate_subtitles,  \* the parameter of that name
    sorted_highlights,   \* the local list highlights after the merge and the sort
    futures,             \* per segment index, the state and result of its task
    verified_segments,   \* segment files in the order they were collected
    segment_subtitles,   \* the segment files that have a subtitle file
    subtitled_segments,  \* the list the subtitle pass builds
    concat_list,         \* the content of concat_list.txt
    manifest_written,    \* concat_list.txt has been written
    concat_invoked,      \* the concat subprocess has been run
    concat_ok,           \* it exited with 0 and left a non-empty output file
    temp_dir_exists,     \* temp_segments exists
    error,               \* the exception that left concatenate_highlights, or "none"
    cpc,                 \* position in concatenate_highlights
    \* process_segment
    seg_highlight,       \* the argument highlight
    seg_subtitles,       \* the argument generate_subtitles
    seg_env,             \* what the subprocesses and the file system do during the call
    seg_result,          \* the tuple returned
    spc,                 \* "idle" | "call" | "returned"
    \* async_main (src/main.py)
    source_exists,       \* per source path, os.path.exists when the video is compiled
    output_highlights,   \* the highlights of the video that was compiled
    main_error,          \* the exception caught at the end of async_main, or "none"
    apc,                 \* "idle" | "plan" | "mark" | "complete" | "exit1"
    \* process_recent_clips (src/src/main.py)
    dir_clips,           \* per clip of the directory, what analysing it yields
    allow_clip_reuse,    \* config.allow_clip_reuse
    skip_videos,         \* config.skip_videos
    max_clips,           \* config.max_clips
    video_paths,         \* the local list of that name; a clip is named by its index
    results,             \* (path, highlights) of the clips analysed in this run
    previously_analyzed_results,
    analyzed_data,       \* the clips analyzed_clips.json holds
    highlights_file,     \* the sources of the highlights written to output_file
    video_outcome,       \* how concatenate_highlights ended, or "none"
    used_clips,          \* the clips used_clips.json holds
    marked,              \* clip_tracker.mark_clips_as_used has been called
    rpc,                 \* "idle" | "start" | "analyze" | "generate" | "mark" | "returned" | "raised"
    \* two runs of concatenate_highlights in one working directory
    run_segments,        \* per run, the number of its highlights after the merge
    run_written,         \* per run, the number of segment files it has written
    run_pc,              \* per run, its position
    fs_dir,              \* temp_segments exists
    fs_owner,            \* per file of temp_segments, the run that wrote it last, or NoRun
    interference,        \* what a run did to a file that another run wrote
    \* two calls of plan_compilation
    first_call           \* what the first of two calls returned, or NoCall

mergeVars == <<highlights, heap_after, merged_highlights, remerged_highlights, mpc>>
planVars == <<db_clips, include_used_clips, target_duration, all_highlights,
              selected_highlights, current_duration, i, remaining_highlights,
              phase2, plan, raised, ppc>>
pipeVars == <<json_items, generate_subtitles,
              sorted_highlights, futures, verified_segments, segment_subtitles,
              subtitled_segments, concat_list, manifest_written, concat_invoked,
              concat_ok, temp_dir_exists, error, cpc>>
segVars == <<seg_highlight, seg_subtitles, seg_env, seg_result, spc>>
mainVars == <<source_exists, output_highlights, main_error, apc>>
recentVars == <<dir_clips, allow_clip_reuse, skip_videos, max_clips, video_paths,
                results, previously_analyzed_results, analyzed_data, highlights_file,
                video_outcome, used_clips, marked, rpc>>
runVars == <<run_segments, run_written, run_pc, fs_dir, fs_owner, interference>>
callVars == <<first_call>>
vars == <<mergeVars, planVars, pipeVars, segVars, mainVars, recentVars, runVars, callVars>>

(***************************************************************************)
(* Bounds of the model                                                     *)
(***************************************************************************)
MaxLen == 3          \* longest list of highlight candidates handed to merge
MaxStart == 5        \* latest start second of a candidate
MaxHighlights == 3   \* most highlights in the analysis of one clip
MaxTarget == 10      \* largest target duration, in seconds
MaxItems == 3        \* most highlight items in the JSON document
MaxProbe == 7        \* longest duration ffprobe reports, in seconds
TicksPerSecond == 2  \* resolution of the durations ffprobe reports
MaxMainTarget == 2   \* largest target duration of a run of async_main, in seconds
MaxClips == 3        \* most clips in the directory process_recent_clips reads
MaxRunSegments == 2  \* most segments of one of two concurrent runs

(***************************************************************************)
(* Generic helpers                                                         *)
(***************************************************************************)
Max(a, b) == IF a >= b THEN a ELSE b
Min(a, b) == IF a <= b THEN a ELSE b
Abs(a) == IF a >= 0 THEN a ELSE -a
Range(s) == {s[k] : k \in DOMAIN s}

RECURSIVE Flatten(_)
Flatten(ss) == IF ss = <<>> THEN <<>> ELSE Head(ss) \o Flatten(Tail(ss))

\* Keys are tuples of integers, compared as Python compares tuples.
RECURSIVE KeyLess(_, _)
KeyLess(k1, k2) ==
    IF k1 = <<>> \/ k2 = <<>> THEN k1 = <<>> /\ k2 # <<>>
    ELSE IF Head(k1) # Head(k2) THEN Head(k1) < Head(k2)
    ELSE KeyLess(Tail(k1), Tail(k2))

\* list.sort(key=...) is stable: an element is placed in front of the first
\* element with a strictly larger key.  s is a sequence of [key, item] pairs.
RECURSIVE InsertStable(_, _)
InsertStable(x, s) ==
    IF s = <<>> THEN <<x>>
    ELSE IF KeyLess(x.key, Head(s).key) THEN <<x>> \o s
    ELSE <<Head(s)>> \o InsertStable(x, Tail(s))

RECURSIVE SortPairs(_)
SortPairs(s) ==
    IF s = <<>> THEN <<>>
    ELSE InsertStable(s[Len(s)], SortPairs(SubSeq(s, 1, Len(s) - 1)))

\* s sorted by keys, where keys[k] is the key of s[k]
StableSort(s, keys) ==
    LET sorted == SortPairs([k \in DOMAIN s |-> [key |-> keys[k], item |-> s[k]]])
    IN [k \in DOMAIN sorted |-> sorted[k].item]

(***************************************************************************)
(* merge_overlapping_highlights                                            *)
(***************************************************************************)
Absent == "ABSENT"        \* a key the dict does not have
NonDict == [is_dict |-> FALSE]   \* a list item that is not a dict

\* the tolerance written as the literal 3 in the merge condition
GAP_TOLERANCE == 3

IsDict(h) == h # NonDict

\* highlight.get('source_video', highlight.get('video_path', None))
Source(h) == IF h.source_video # Absent THEN h.source_video ELSE h.video_path

\* valid_highlights: the isinstance(h, dict) filter
ValidHighlights(hs) == SelectSeq(hs, IsDict)

\* the keys of video_groups in insertion order (first appearance of a source);
\* "if not source: continue" drops the candidates without one
RECURSIVE GroupKeys(_)
GroupKeys(hs) ==
    IF hs = <<>> THEN <<>>
    ELSE LET rest == GroupKeys(SubSeq(hs, 1, Len(hs) - 1))
             s == Source(hs[Len(hs)])
         IN IF s = Absent \/ s \in Range(rest) THEN rest ELSE Append(rest, s)

\* mutant of Group: the source of a candidate is not compared
Group_AnySource(hs, s) == SelectSeq(hs, LAMBDA h : Source(h) # Absent)

\* video_groups[source]
Group(hs, s) == SelectSeq(hs, LAMBDA h : Source(h) = s)

\* mutant of SortByStart: the group is swept in the order of the input
SortByStart_Unsorted(vh) == vh

\* video_highlights.sort(key=lambda x: x['timestamp_start_seconds'])
SortByStart(vh) == StableSort(vh, [k \in DOMAIN vh |-> <<vh[k].timestamp_start_seconds>>])

\* mutant of MergeCondition: the second clause is left out
MergeCondition_FirstClauseOnly(merged, next) ==
    merged.timestamp_end_seconds + GAP_TOLERANCE >= next.timestamp_start_seconds

\* mutant of MergeCondition: the starts may be twice the tolerance apart
MergeCondition_WideStarts(merged, next) ==
    \/ merged.timestamp_end_seconds + GAP_TOLERANCE >= next.timestamp_start_seconds
    \/ Abs(merged.timestamp_start_seconds - next.timestamp_start_seconds) <= 2 * GAP_TOLERANCE

\* mutant of MergeCondition: strict comparisons
MergeCondition_Strict(merged, next) ==
    \/ merged.timestamp_end_seconds + GAP_TOLERANCE > next.timestamp_start_seconds
    \/ Abs(merged.timestamp_start_seconds - next.timestamp_start_seconds) < GAP_TOLERANCE

\* the condition of the inner while loop
MergeCondition(merged, next) ==
    \/ merged.timestamp_end_seconds + GAP_TOLERANCE >= next.timestamp_start_seconds
    \/ Abs(merged.timestamp_start_seconds - next.timestamp_start_seconds) <= GAP_TOLERANCE

\* mutant of Absorb: the end of the merged interval is not extended
Absorb_KeepEnd(merged, next) ==
    [merged EXCEPT
        !.timestamp_start_seconds = Min(merged.timestamp_start_seconds, next.timestamp_start_seconds),
        !.clip_description = merged.clip_description \o next.clip_description]

\* the three assignments of the merge branch
Absorb(merged, next) ==
    [merged EXCEPT
        !.timestamp_start_seconds = Min(merged.timestamp_start_seconds, next.timestamp_start_seconds),
        !.timestamp_end_seconds = Max(merged.timestamp_end_seconds, next.timestamp_end_seconds),
        !.clip_description = merged.clip_description \o next.clip_description]

\* the inner while loop: from merged and j to the merged record and the j it stops at
RECURSIVE InnerLoop(_, _, _)
InnerLoop(vh, merged, j) ==
    IF j <= Len(vh) /\ MergeCondition(merged, vh[j])
    THEN InnerLoop(vh, Absorb(merged, vh[j]), j + 1)
    ELSE [merged |-> merged, j |-> j]

\* the outer while loop over one sorted group, from index at (1-based here)
RECURSIVE Sweep(_, _)
Sweep(vh, at) ==
    IF at > Len(vh) THEN <<>>
    ELSE LET r == InnerLoop(vh, vh[at], at + 1)
         IN <<r.merged>> \o Sweep(vh, r.j)

merge_overlapping_highlights(hs) ==
    IF hs = <<>> THEN <<>>
    ELSE LET valid == ValidHighlights(hs)
             keys == GroupKeys(valid)
         IN Flatten([k \in DOMAIN keys |-> Sweep(SortByStart(Group(valid, keys[k])), 1)])

(***************************************************************************)
(* The same call with the identity of its dicts.  A heap is a sequence of  *)
(* dicts and an object is its index in the heap: the items of the          *)
(* caller's list are the objects 1..Len(hs), and a dict the call creates   *)
(* is appended.  No statement of the function writes to the caller's list  *)
(* itself: valid_highlights and the lists of video_groups are new lists,   *)
(* and the sort at line 145 sorts a list of video_groups.                  *)
(***************************************************************************)
\* mutant of CopyCurrent: merged is current itself
CopyCurrent_Alias(heap, current) == [heap |-> heap, merged |-> current]

\* merged = current.copy(): a new dict with the items of current
CopyCurrent(heap, current) == [heap |-> Append(heap, heap[current]), merged |-> Len(heap) + 1]

\* the inner while loop, writing to the object merged
RECURSIVE HeapInnerLoop(_, _, _, _)
HeapInnerLoop(heap, vh, merged, j) ==
    IF j <= Len(vh) /\ MergeCondition(heap[merged], heap[vh[j]])
    THEN HeapInnerLoop([heap EXCEPT ![merged] = Absorb(heap[merged], heap[vh[j]])],
                       vh, merged, j + 1)
    ELSE [heap |-> heap, j |-> j]

\* the outer while loop over the objects vh of one sorted group; out is
\* merged_highlights
RECURSIVE HeapSweep(_, _, _, _)
HeapSweep(heap, vh, at, out) ==
    IF at > Len(vh) THEN [heap |-> heap, out |-> out]
    ELSE LET c == CopyCurrent(heap, vh[at])
             r == HeapInnerLoop(c.heap, vh, c.merged, at + 1)
         IN HeapSweep(r.heap, vh, r.j, Append(out, c.merged))

\* the objects of video_groups[s], sorted by start as line 145 does
SortedGroupObjects(heap, hs, s) ==
    LET ids == SelectSeq([k \in DOMAIN hs |-> k], LAMBDA k : IsDict(hs[k]) /\ Source(hs[k]) = s)
    IN StableSort(ids, [k \in DOMAIN ids |-> <<heap[ids[k]].timestamp_start_seconds>>])

\* the loop over video_groups.items(), from key k on
RECURSIVE HeapGroups(_, _, _, _, _)
HeapGroups(heap, hs, keys, k, out) ==
    IF k > Len(keys) THEN [heap |-> heap, out |-> out]
    ELSE LET r == HeapSweep(heap, SortedGroupObjects(heap, hs, keys[k]), 1, out)
         IN HeapGroups(r.heap, hs, keys, k + 1, r.out)

\* the heap and the objects of merged_highlights when the call returns
MergeOnHeap(hs) == HeapGroups(hs, hs, GroupKeys(ValidHighlights(hs)), 1, <<>>)

\* the caller's list of n items, read from the heap
CallersList(heap, n) == SubSeq(heap, 1, n)

\* the caller's list when the call returns
InputAfterMerge(hs) == CallersList(MergeOnHeap(hs).heap, Len(hs))

EmptyHeap == [heap |-> <<>>, out |-> <<>>]

(***************************************************************************)
(* Inputs of SpecMerge                                                     *)
(***************************************************************************)
\* end - start of a candidate; -1 is an interval that ends before it starts,
\* which nothing in the code rejects
Lengths == {-1, 1, 2}

Interval(src, vp, s, len) ==
    [source_video |-> src, video_path |-> vp,
     timestamp_start_seconds |-> s, timestamp_end_seconds |-> s + len,
     clip_description |-> <<>>]

\* source "a" is named by source_video, source "b" only by the fallback key
\* video_path; one candidate names no source and one list item is no dict
Candidates ==
    {Interval("a", Absent, s, len) : s \in 0..MaxStart, len \in Lengths}
    \cup {Interval(Absent, "b", s, 1) : s \in 0..MaxStart}
    \cup {Interval(Absent, Absent, 0, 1), NonDict}

\* the k-th candidate of a list is described by the atom k
Describe(hs) ==
    [k \in DOMAIN hs |->
        IF IsDict(hs[k]) THEN [hs[k] EXCEPT !.clip_description = <<k>>] ELSE hs[k]]

SeqsUpTo(S, n) == UNION {[1..m -> S] : m \in 0..n}

MergeInputs == {Describe(q) : q \in SeqsUpTo(Candidates, MaxLen)}

(***************************************************************************)
(* HighlightCompiler.plan_compilation                                      *)
(***************************************************************************)
\* clips.analysis IS NULL
NoAnalysis == [kind |-> "null", highlights |-> <<>>]
\* the analysis scan_clips_folder stores through add_clip's third parameter:
\* a dict {"recorded_at": ...} without a "highlights" key
MetadataOnly == [kind |-> "recorded_at_only", highlights |-> <<>>]
\* an analysis with its "highlights" list
Analysis(hs) == [kind |-> "analysis", highlights |-> hs]
\* plan_compilation has returned nothing
NoPlan == [returned |-> FALSE]

\* self.db.get_all_clips() if self.include_used_clips else self.db.get_unused_clips()
ClipsForPlan(rows, include_used) ==
    IF include_used THEN rows ELSE SelectSeq(rows, LAMBDA c : ~c.used)

\* [clip for clip in clips if clip["analysis"] is not None]
ClipsWithAnalysis(cs) == SelectSeq(cs, LAMBDA c : c.analysis # NoAnalysis)

\* get_clip_time as nested in plan_compilation: a row has no "metadata" key, so
\* the condition of the if is false and the function returns None for every row
GetClipTimeIsNone(c) == TRUE

\* clips_with_analysis.sort(key=get_clip_time, reverse=True) compares the keys
\* as soon as there are two of them, and None < None raises TypeError
ClipSortRaises(cwa) == Len(cwa) >= 2 /\ \A k \in DOMAIN cwa : GetClipTimeIsNone(cwa[k])

\* mutant of MakeSelected: the duration is the end time
MakeSelected_EndAsDuration(clip, h) ==
    [source_path |-> clip.path, original_clip_path |-> clip.path, clip_id |-> clip.id,
     start_time |-> h.start_time, end_time |-> h.end_time,
     duration |-> h.end_time, description |-> h.clip_description]

\* the SelectedHighlight built for one highlight of one clip
MakeSelected(clip, h) ==
    [source_path |-> clip.path, original_clip_path |-> clip.path, clip_id |-> clip.id,
     start_time |-> h.start_time, end_time |-> h.end_time,
     duration |-> h.end_time - h.start_time, description |-> h.clip_description]

\* the two nested loops that fill all_highlights
ExtractHighlights(cwa) ==
    Flatten([k \in DOMAIN cwa |->
        [n \in DOMAIN cwa[k].analysis.highlights |->
            MakeSelected(cwa[k], cwa[k].analysis.highlights[n])]])

\* no first call has returned yet
NoCall == [returned |-> FALSE]

\* mutant of SortByDuration: the pool keeps the order it was gathered in
SortByDuration_Unsorted(hs) == hs

\* mutant of SortByDuration: candidates of equal duration come out in an order
\* that changes from one call to the next
SortByDuration_TiesByCall(hs) ==
    IF first_call = NoCall
    THEN StableSort(hs, [k \in DOMAIN hs |-> <<hs[k].duration>>])
    ELSE LET r == [k \in DOMAIN hs |-> hs[Len(hs) + 1 - k]]
         IN StableSort(r, [k \in DOMAIN r |-> <<r[k].duration>>])

\* all_highlights.sort(key=lambda h: h.duration)
SortByDuration(hs) == StableSort(hs, [k \in DOMAIN hs |-> <<hs[k].duration>>])

\* mutant of ExceedsCeiling: the duration of the candidate is not added
ExceedsCeiling_BeforeAdding(current, duration, target) == 10 * current > 11 * target

\* current_duration + highlight.duration > self.target_duration * 1.1
ExceedsCeiling(current, duration, target) == 10 * (current + duration) > 11 * target

\* mutant of Underfilled: the comparison is inverted
Underfilled_Inverted(current, target) == 10 * current > 9 * target

\* current_duration < self.target_duration * 0.9
Underfilled(current, target) == 10 * current < 9 * target

\* mutant of Phase2Break: the second pass never stops early
Phase2Break_Never(current, target) == FALSE

\* if current_duration >= self.target_duration: break
Phase2Break(current, target) == current >= target

\* mutant of PopAt: the selected candidate stays in the pool
PopAt_Keep(hs, n) == hs

\* all_highlights.pop(i), i 0-based
PopAt(hs, n) == SubSeq(hs, 1, n) \o SubSeq(hs, n + 2, Len(hs))

\* source paths compare as strings
PathRank(p) == IF p = "a" THEN 1 ELSE 2

\* mutant of SortBySourceAndStart: the selection order is kept
SortBySourceAndStart_Unsorted(hs) == hs

\* selected_highlights.sort(key=lambda h: (h.source_path, h.start_time))
SortBySourceAndStart(hs) ==
    StableSort(hs, [k \in DOMAIN hs |-> <<PathRank(hs[k].source_path), hs[k].start_time>>])

\* sorted(all_highlights, key=lambda h: random.random()): any order of the list
Shuffles(hs) ==
    {[k \in DOMAIN hs |-> hs[p[k]]] : p \in {q \in [DOMAIN hs -> DOMAIN hs] :
                                              \A x, y \in DOMAIN hs : x # y => q[x] # q[y]}}

RECURSIVE SumDurations(_)
SumDurations(hs) == IF hs = <<>> THEN 0 ELSE Head(hs).duration + SumDurations(Tail(hs))

CandidateClips == ClipsWithAnalysis(ClipsForPlan(db_clips, include_used_clips))

\* raise ValueError("No analyzed clips available")
PlanNoAnalyzedClips ==
    /\ ppc = "start"
    /\ CandidateClips = <<>>
    /\ raised' = "ValueError"
    /\ ppc' = "raised"
    /\ UNCHANGED <<db_clips, include_used_clips, target_duration, all_highlights,
                   selected_highlights, current_duration, i, remaining_highlights,
                   phase2, plan, mergeVars, pipeVars, segVars, mainVars, recentVars, runVars, callVars>>

\* the sort of clips_with_analysis raises
PlanClipSortRaises ==
    /\ ppc = "start"
    /\ ClipSortRaises(CandidateClips)
    /\ raised' = "TypeError"
    /\ ppc' = "raised"
    /\ UNCHANGED <<db_clips, include_used_clips, target_duration, all_highlights,
                   selected_highlights, current_duration, i, remaining_highlights,
                   phase2, plan, mergeVars, pipeVars, segVars, mainVars, recentVars, runVars, callVars>>

\* analysis["highlights"] on an analysis without that key
PlanAnalysisKeyError ==
    /\ ppc = "start"
    /\ CandidateClips # <<>>
    /\ ~ClipSortRaises(CandidateClips)
    /\ \E k \in DOMAIN CandidateClips : CandidateClips[k].analysis = MetadataOnly
    /\ raised' = "KeyError"
    /\ ppc' = "raised"
    /\ UNCHANGED <<db_clips, include_used_clips, target_duration, all_highlights,
                   selected_highlights, current_duration, i, remaining_highlights,
                   phase2, plan, mergeVars, pipeVars, segVars, mainVars, recentVars, runVars, callVars>>

\* lines 148-176: the pool is gathered and sorted by duration
PlanGather ==
    /\ ppc = "start"
    /\ CandidateClips # <<>>
    /\ ~ClipSortRaises(CandidateClips)
    /\ \A k \in DOMAIN CandidateClips : CandidateClips[k].analysis # MetadataOnly
    /\ all_highlights' = SortByDuration(ExtractHighlights(CandidateClips))
    /\ selected_highlights' = <<>>
    /\ current_duration' = 0
    /\ i' = 0
    /\ ppc' = "phase1"
    /\ UNCHANGED <<db_clips, include_used_clips, target_duration, remaining_highlights,
                   phase2, plan, raised, mergeVars, pipeVars, segVars, mainVars, recentVars, runVars, callVars>>

Phase1Running == i < Len(all_highlights) /\ current_duration < target_duration

\* first pass, the candidate would exceed 110% of the target: i += 1; continue
Phase1Skip ==
    /\ ppc = "phase1"
    /\ Phase1Running
    /\ ExceedsCeiling(current_duration, all_highlights[i + 1].duration, target_duration)
    /\ i' = i + 1
    /\ UNCHANGED <<db_clips, include_used_clips, target_duration, all_highlights,
                   selected_highlights, current_duration, remaining_highlights,
                   phase2, plan, raised, ppc, mergeVars, pipeVars, segVars, mainVars, recentVars, runVars, callVars>>

\* first pass, the candidate is appended and popped from the pool
Phase1Accept ==
    /\ ppc = "phase1"
    /\ Phase1Running
    /\ ~ExceedsCeiling(current_duration, all_highlights[i + 1].duration, target_duration)
    /\ selected_highlights' = Append(selected_highlights, all_highlights[i + 1])
    /\ current_duration' = current_duration + all_highlights[i + 1].duration
    /\ all_highlights' = PopAt(all_highlights, i)
    /\ UNCHANGED <<db_clips, include_used_clips, target_duration, i, remaining_highlights,
                   phase2, plan, raised, ppc, mergeVars, pipeVars, segVars, mainVars, recentVars, runVars, callVars>>

\* the first pass is over and the result is under 90%: the rest is shuffled
EnterPhase2 ==
    /\ ppc = "phase1"
    /\ ~Phase1Running
    /\ Underfilled(current_duration, target_duration)
    /\ remaining_highlights' \in Shuffles(all_highlights)
    /\ phase2' = TRUE
    /\ ppc' = "phase2"
    /\ UNCHANGED <<db_clips, include_used_clips, target_duration, all_highlights,
                   selected_highlights, current_duration, i, plan, raised, mergeVars, pipeVars, segVars, mainVars, recentVars, runVars, callVars>>

\* the first pass is over and the second pass is not needed
SkipPhase2 ==
    /\ ppc = "phase1"
    /\ ~Phase1Running
    /\ ~Underfilled(current_duration, target_duration)
    /\ ppc' = "sort"
    /\ UNCHANGED <<db_clips, include_used_clips, target_duration, all_highlights,
                   selected_highlights, current_duration, i, remaining_highlights,
                   phase2, plan, raised, mergeVars, pipeVars, segVars, mainVars, recentVars, runVars, callVars>>

\* second pass, one iteration that appends
Phase2Add ==
    /\ ppc = "phase2"
    /\ remaining_highlights # <<>>
    /\ ~Phase2Break(current_duration, target_duration)
    /\ selected_highlights' = Append(selected_highlights, Head(remaining_highlights))
    /\ current_duration' = current_duration + Head(remaining_highlights).duration
    /\ remaining_highlights' = Tail(remaining_highlights)
    /\ UNCHANGED <<db_clips, include_used_clips, target_duration, all_highlights, i,
                   phase2, plan, raised, ppc, mergeVars, pipeVars, segVars, mainVars, recentVars, runVars, callVars>>

\* second pass, the break or the end of the list
Phase2End ==
    /\ ppc = "phase2"
    /\ remaining_highlights = <<>> \/ Phase2Break(current_duration, target_duration)
    /\ ppc' = "sort"
    /\ UNCHANGED <<db_clips, include_used_clips, target_duration, all_highlights,
                   selected_highlights, current_duration, i, remaining_highlights,
                   phase2, plan, raised, mergeVars, pipeVars, segVars, mainVars, recentVars, runVars, callVars>>

\* lines 206-219: the final sort and the CompilationPlan
BuildPlan ==
    /\ ppc = "sort"
    /\ selected_highlights' = SortBySourceAndStart(selected_highlights)
    /\ plan' = [highlights |-> selected_highlights',
                total_duration |-> current_duration,
                target_duration |-> target_duration]
    /\ ppc' = "done"
    /\ UNCHANGED <<db_clips, include_used_clips, target_duration, all_highlights,
                   current_duration, i, remaining_highlights, phase2, raised, mergeVars, pipeVars, segVars, mainVars, recentVars, runVars, callVars>>

\* plan_compilation is called a second time on the same HighlightCompiler and
\* the same clips table: its locals start afresh, what the first call
\* returned is kept for comparison
PlanCallAgain ==
    /\ ppc = "done"
    /\ first_call = NoCall
    /\ first_call' = [returned |-> TRUE, plan |-> plan, phase2 |-> phase2]
    /\ all_highlights' = <<>>
    /\ selected_highlights' = <<>>
    /\ current_duration' = 0
    /\ i' = 0
    /\ remaining_highlights' = <<>>
    /\ phase2' = FALSE
    /\ plan' = NoPlan
    /\ ppc' = "start"
    /\ UNCHANGED <<db_clips, include_used_clips, target_duration, raised, mergeVars,
                   pipeVars, segVars, mainVars, recentVars, runVars>>

(***************************************************************************)
(* async_main (src/main.py), after analyze_clips                           *)
(***************************************************************************)
Paths == {"a", "b"}

\* video.py lines 48-56: the path create_concat_file writes for a highlight,
\* or Absent when neither source_path nor original_clip_path exists
ActualPath(h, exists) ==
    IF exists[h.source_path] THEN h.source_path
    ELSE IF exists[h.original_clip_path] THEN h.original_clip_path
    ELSE Absent

\* video.py line 54: create_concat_file raises FileNotFoundError
ConcatFileRaises(hs, exists) ==
    \E k \in DOMAIN hs : ActualPath(hs[k], exists) = Absent

\* highlighter.py line 223: the paths mark_clips_as_used looks up
SourcePaths(p) == {p.highlights[k].source_path : k \in DOMAIN p.highlights}

\* highlighter.py lines 225-228: UPDATE clips SET used_at for each path found
MarkUsed(rows, paths) ==
    [k \in DOMAIN rows |->
        IF rows[k].path \in paths THEN [rows[k] EXCEPT !.used = TRUE] ELSE rows[k]]

\* src/main.py lines 151-153: an exception of plan_compilation is logged and
\* the process exits with status 1
MainPlanRaised ==
    /\ apc = "plan"
    /\ ppc = "raised"
    /\ main_error' = raised
    /\ apc' = "exit1"
    /\ UNCHANGED <<source_exists, output_highlights, planVars, mergeVars, pipeVars, segVars, recentVars, runVars, callVars>>

\* src/main.py lines 128-130: if not plan.highlights: sys.exit(1)
MainNoHighlights ==
    /\ apc = "plan"
    /\ ppc = "done"
    /\ plan.highlights = <<>>
    /\ apc' = "exit1"
    /\ UNCHANGED <<source_exists, output_highlights, main_error, planVars, mergeVars,
                   pipeVars, segVars, recentVars, runVars, callVars>>

\* src/main.py line 139, video.py lines 43-63 and 74-97: a source of the plan
\* is not found, create_concat_file raises and async_main exits with status 1
CompileMissingSource ==
    /\ apc = "plan"
    /\ ppc = "done"
    /\ plan.highlights # <<>>
    /\ \E exists \in [Paths -> BOOLEAN] :
           /\ ConcatFileRaises(plan.highlights, exists)
           /\ source_exists' = exists
    /\ main_error' = "FileNotFoundError"
    /\ apc' = "exit1"
    /\ UNCHANGED <<output_highlights, planVars, mergeVars, pipeVars, segVars, recentVars, runVars, callVars>>

\* video.py lines 85-92: ffmpeg exits non-zero, subprocess.run(check=True)
\* raises CalledProcessError and async_main exits with status 1
CompileFfmpegFails ==
    /\ apc = "plan"
    /\ ppc = "done"
    /\ plan.highlights # <<>>
    /\ \E exists \in [Paths -> BOOLEAN] :
           /\ ~ConcatFileRaises(plan.highlights, exists)
           /\ source_exists' = exists
    /\ main_error' = "CalledProcessError"
    /\ apc' = "exit1"
    /\ UNCHANGED <<output_highlights, planVars, mergeVars, pipeVars, segVars, recentVars, runVars, callVars>>

\* video.py lines 66-88: the concat file lists every highlight of the plan and
\* ffmpeg writes the output
CompileSucceeds ==
    /\ apc = "plan"
    /\ ppc = "done"
    /\ plan.highlights # <<>>
    /\ \E exists \in [Paths -> BOOLEAN] :
           /\ ~ConcatFileRaises(plan.highlights, exists)
           /\ source_exists' = exists
    /\ output_highlights' = plan.highlights
    /\ apc' = "mark"
    /\ UNCHANGED <<main_error, planVars, mergeVars, pipeVars, segVars, recentVars, runVars, callVars>>

\* src/main.py line 142 and highlighter.py lines 221-230
MarkClipsAsUsed ==
    /\ apc = "mark"
    /\ db_clips' = MarkUsed(db_clips, SourcePaths(plan))
    /\ apc' = "complete"
    /\ UNCHANGED <<include_used_clips, target_duration, all_highlights,
                   selected_highlights, current_duration, i, remaining_highlights,
                   phase2, plan, raised, ppc, source_exists, output_highlights,
                   main_error, mergeVars, pipeVars, segVars, recentVars, runVars, callVars>>

(***************************************************************************)
(* process_recent_clips and generate_highlight_video (src/src/main.py)     *)
(*                                                                         *)
(* A clip is named by its index in the sorted directory listing.  The      *)
(* highlights of a clip are modelled by whether there are any.             *)
(***************************************************************************)
Take(s, n) == SubSeq(s, 1, Min(n, Len(s)))
Drop(s, n) == SubSeq(s, n + 1, Len(s))

\* clip_tracker.py lines 36-51
filter_unused_clips(paths, used, allow_reuse) ==
    IF allow_reuse THEN paths ELSE SelectSeq(paths, LAMBDA k : k \notin used)

\* lines 156-170: the clips left after the filter, skip_videos and max_clips
SelectedPaths(paths, used, allow_reuse, skip, most) ==
    Take(Drop(filter_unused_clips(paths, used, allow_reuse), skip), most)

\* lines 159-162 and 172-174: the two early returns
NothingToProcess(paths, used, allow_reuse, skip, most) ==
    \/ skip > 0 /\ skip >= Len(filter_unused_clips(paths, used, allow_reuse))
    \/ SelectedPaths(paths, used, allow_reuse, skip, most) = <<>>

\* the (path, highlights) tuples of the paths ps
ResultsOf(ps, clips) ==
    [k \in DOMAIN ps |-> [path |-> ps[k], highlights |-> clips[ps[k]].has_highlights]]

\* the paths of the tuples that have highlights
WithHighlights(rs) == {rs[k].path : k \in {n \in DOMAIN rs : rs[n].highlights}}

\* line 223: successful_clips = [path for path, highlights in results if highlights]
SuccessfulClips(rs) == WithHighlights(rs)

\* lines 150-174
RecentFilter ==
    /\ rpc = "start"
    /\ LET paths == [k \in DOMAIN dir_clips |-> k]
       IN IF NothingToProcess(paths, used_clips, allow_clip_reuse, skip_videos, max_clips)
          THEN /\ rpc' = "returned"
               /\ UNCHANGED video_paths
          ELSE /\ video_paths' =
                      SelectedPaths(paths, used_clips, allow_clip_reuse, skip_videos, max_clips)
               /\ rpc' = "analyze"
    /\ UNCHANGED <<dir_clips, allow_clip_reuse, skip_videos, max_clips, results,
                   previously_analyzed_results, analyzed_data, highlights_file,
                   video_outcome, used_clips, marked, mergeVars, planVars, pipeVars,
                   segVars, mainVars, runVars, callVars>>

\* lines 176-220: the stored analyses are fetched, the other clips are
\* analysed, and the highlights of both are written to output_file
RecentAnalyze ==
    /\ rpc = "analyze"
    /\ LET old == SelectSeq(video_paths, LAMBDA k : k \in analyzed_data)
           new == SelectSeq(video_paths, LAMBDA k : k \notin analyzed_data)
           combined == ResultsOf(new, dir_clips) \o ResultsOf(old, dir_clips)
       IN /\ previously_analyzed_results' = ResultsOf(old, dir_clips)
          /\ results' = ResultsOf(new, dir_clips)
          /\ analyzed_data' = analyzed_data \cup WithHighlights(ResultsOf(new, dir_clips))
          /\ highlights_file' = WithHighlights(combined)
          /\ rpc' = IF combined # <<>> /\ WithHighlights(combined) # {}
                    THEN "generate" ELSE "returned"
    /\ UNCHANGED <<dir_clips, allow_clip_reuse, skip_videos, max_clips, video_paths,
                   video_outcome, used_clips, marked, mergeVars, planVars, pipeVars,
                   segVars, mainVars, runVars, callVars>>

\* how a call of concatenate_highlights ends for its caller: it returns None
\* after a video was written, after the concat subprocess failed, or after
\* one of its early returns, or it raises
ReturningOutcomes == {"video", "concat_failed", "early_return"}

\* lines 221 and 284-291: concatenate_highlights returns, and
\* generate_highlight_video logs that the concatenation completed
GenerateReturns ==
    /\ rpc = "generate"
    /\ video_outcome' \in ReturningOutcomes
    /\ rpc' = "mark"
    /\ UNCHANGED <<dir_clips, allow_clip_reuse, skip_videos, max_clips, video_paths,
                   results, previously_analyzed_results, analyzed_data, highlights_file,
                   used_clips, marked, mergeVars, planVars, pipeVars, segVars, mainVars, runVars, callVars>>

\* lines 293-295 and 226-228: concatenate_highlights raises, and the
\* exception goes through both callers
GenerateRaises ==
    /\ rpc = "generate"
    /\ video_outcome' = "raised"
    /\ rpc' = "raised"
    /\ UNCHANGED <<dir_clips, allow_clip_reuse, skip_videos, max_clips, video_paths,
                   results, previously_analyzed_results, analyzed_data, highlights_file,
                   used_clips, marked, mergeVars, planVars, pipeVars, segVars, mainVars, runVars, callVars>>

\* lines 222-224 and clip_tracker.py lines 53-58
RecentMark ==
    /\ rpc = "mark"
    /\ used_clips' = used_clips \cup SuccessfulClips(results)
    /\ marked' = TRUE
    /\ rpc' = "returned"
    /\ UNCHANGED <<dir_clips, allow_clip_reuse, skip_videos, max_clips, video_paths,
                   results, previously_analyzed_results, analyzed_data, highlights_file,
                   video_outcome, mergeVars, planVars, pipeVars, segVars, mainVars, runVars, callVars>>

(***************************************************************************)
(* Inputs of SpecRecent                                                    *)
(***************************************************************************)
\* a clip is in used_clips.json or not, in analyzed_clips.json or not, and
\* its analysis, stored or new, has highlights or not
ClipKinds == [used : BOOLEAN, analyzed : BOOLEAN, has_highlights : BOOLEAN]

\* line 105: an empty directory returns before the clips are filtered
Directories == SeqsUpTo(ClipKinds, MaxClips) \ {<<>>}

(***************************************************************************)
(* Inputs of SpecPlan                                                      *)
(***************************************************************************)
\* end_time - start_time of a highlight; nothing in the code rejects -1
PlanLengths == {-1, 1, 5, 6}
PlanStarts == {0, 1}

HighlightChoices ==
    {[start_time |-> s, end_time |-> s + len, clip_description |-> <<>>] :
        s \in PlanStarts, len \in PlanLengths}

\* the n-th highlight of an analysis is described by the atom n
DescribeAnalysis(hs) == [n \in DOMAIN hs |-> [hs[n] EXCEPT !.clip_description = <<n>>]]

Analyses ==
    {NoAnalysis, MetadataOnly}
    \cup {Analysis(DescribeAnalysis(q)) : q \in SeqsUpTo(HighlightChoices, MaxHighlights)}

ClipRow(id, path, analysis, used) ==
    [id |-> id, path |-> path, analysis |-> analysis, used |-> used]

\* clip "a" is unused and carries any analysis; a second clip "b", when the
\* table has one, has no analysis, or has a one-highlight analysis and is
\* used or unused
SecondClips ==
    {ClipRow(2, "b", NoAnalysis, FALSE)}
    \cup {ClipRow(2, "b",
                  Analysis(<<[start_time |-> 0, end_time |-> 1, clip_description |-> <<1>>]>>),
                  u) : u \in BOOLEAN}

Tables ==
    {<<ClipRow(1, "a", an, FALSE)>> : an \in Analyses}
    \cup {<<ClipRow(1, "a", an, FALSE), b>> : an \in Analyses, b \in SecondClips}

(***************************************************************************)
(* Inputs of SpecScenario: one pool of highlights of one source, handed    *)
(* to merge_overlapping_highlights as candidates and stored as the         *)
(* analysis of clip "a" for plan_compilation.  Nothing in the code hands   *)
(* the result of the merge to plan_compilation: the only call of the       *)
(* merge is line 332 of concatenate_highlights, and plan_compilation       *)
(* reads analysis["highlights"] of the clips table (lines 154-165).        *)
(***************************************************************************)
\* <<start, end>> in seconds
ScenarioIntervals == {<<10, 20>>, <<19, 30>>, <<100, 110>>}
ScenarioTargets == {10, 20, 25, 30}

\* the lists that hold each interval at most once
ScenarioPools ==
    {q \in SeqsUpTo(ScenarioIntervals, Cardinality(ScenarioIntervals)) :
        \A x, y \in DOMAIN q : x # y => q[x] # q[y]}

\* the pool as the argument of merge_overlapping_highlights
AsCandidates(q) ==
    Describe([k \in DOMAIN q |-> Interval("a", Absent, q[k][1], q[k][2] - q[k][1])])

\* the pool as the analysis of a clip
AsAnalysis(q) ==
    Analysis(DescribeAnalysis(
        [k \in DOMAIN q |->
            [start_time |-> q[k][1], end_time |-> q[k][2], clip_description |-> <<>>]]))

ScenarioTables(q) ==
    {<<ClipRow(1, "a", an, FALSE)>> : an \in {AsAnalysis(q), NoAnalysis, MetadataOnly}}
    \cup {<<ClipRow(1, "a", AsAnalysis(q), FALSE), b>> : b \in SecondClips}

(***************************************************************************)
(* concatenate_highlights                                                  *)
(*                                                                         *)
(* Segments are numbered from 1 here: segment n is the code's idx n - 1    *)
(* and its file is segment_<idx>.mp4 in temp_segments.                     *)
(***************************************************************************)
Sources == {"a", "b"}

\* lines 305-319: the shapes json.load can hand back: a bare list,
\* {"highlights": [...]}, a dict whose values are the highlights, or anything
\* else
ListShapes == {"list", "wrapped", "records"}
Shapes == ListShapes \cup {"other"}

\* the list of highlights a document of each shape yields
HighlightsOfDocument(shape, items) ==
    IF shape \in ListShapes THEN items ELSE <<>>

\* lines 326-329: source_video is filled in from video_path
AddSourceVideo(hs) ==
    [k \in DOMAIN hs |->
        IF IsDict(hs[k]) /\ hs[k].source_video = Absent /\ hs[k].video_path # Absent
        THEN [hs[k] EXCEPT !.source_video = hs[k].video_path]
        ELSE hs[k]]

\* lines 345-353: highlights.sort by parse_video_timestamp of the source,
\* reversed for newest_first; any other clip_order sorts as oldest_first
SortByClipOrder(hs, order, times) ==
    StableSort(hs, [k \in DOMAIN hs |->
        IF order = "newest_first" THEN <<0 - times[hs[k].source_video]>>
        ELSE <<times[hs[k].source_video]>>])

\* line 343: the values of config.clip_order; "random" is none of the two
\* the sort knows
ClipOrders == {"oldest_first", "newest_first", "random"}

\* which of the two sources was recorded first
ClipTimes == {[s \in Sources |-> IF s = first THEN 1 ELSE 2] : first \in Sources}

(***************************************************************************)
(* process_segment                                                         *)
(*                                                                         *)
(* Durations that ffprobe reports are counted in ticks, TicksPerSecond to  *)
(* a second, so that a probed duration can fall between whole seconds.     *)
(***************************************************************************)
END_BUFFER == 2           \* line 191: timestamp_end_seconds + 2
DURATION_TOLERANCE == 1   \* line 253: abs(actual_duration - duration) < 1.0

\* lines 189-192: duration = end_time - start_time, in seconds
CutDuration(h) ==
    (h.timestamp_end_seconds + END_BUFFER) - h.timestamp_start_seconds

\* what ffprobe printed: nothing, or a duration
NoProbe == [empty |-> TRUE, ticks |-> 0]
Probe(n) == [empty |-> FALSE, ticks |-> n]

\* what the subprocesses and the file system do during one call: the exit
\* status of the re-encode, whether segment_file exists and its size, the
\* output of ffprobe, and whether generate_subtitles_for_video returns a path
\* (it raises otherwise)
Environment(rc, exists, size, probe, srt) ==
    [returncode |-> rc, exists |-> exists, size |-> size, probe |-> probe,
     srt_generated |-> srt]

\* mutant of WithinTolerance: a wider tolerance of five seconds
WithinTolerance_Wide(ticks, duration) ==
    Abs(ticks - TicksPerSecond * duration) < 5 * TicksPerSecond

\* line 253: abs(actual_duration - duration) < 1.0
WithinTolerance(ticks, duration) ==
    Abs(ticks - TicksPerSecond * duration) < DURATION_TOLERANCE * TicksPerSecond

\* mutant of Validated: the exit status of the re-encode is not looked at
Validated_IgnoringExit(h, e) ==
    /\ e.exists
    /\ e.size > 0
    /\ WithinTolerance(e.probe.ticks, CutDuration(h))

\* line 253: the whole validation
Validated(h, e) ==
    /\ e.returncode = 0
    /\ e.exists
    /\ e.size > 0
    /\ WithinTolerance(e.probe.ticks, CutDuration(h))

\* lines 226-277: the tuple (segment_file, success, duration, subtitle_path)
\* that process_segment returns, with the exit status of its re-encode and
\* the number of re-encodes it ran; an empty ffprobe output raises ValueError,
\* which the except clause turns into (segment_file, False, 0, None)
process_segment(h, e, subtitles) ==
    IF ~e.probe.empty /\ Validated(h, e)
    THEN [returncode |-> e.returncode, success |-> TRUE, duration |-> e.probe.ticks,
          subtitle_path |-> subtitles /\ e.exists /\ e.srt_generated,
          encodes |-> 1]
    ELSE [returncode |-> e.returncode, success |-> FALSE, duration |-> 0,
          subtitle_path |-> FALSE, encodes |-> 1]

\* the environments of a task of the pool: the re-encode exits with 0 or 1,
\* and ffprobe prints the duration asked for, one off by the tolerance, or
\* nothing
TaskEnvironments(h) ==
    {Environment(rc, TRUE, 1, probe, srt) :
        rc \in {0, 1},
        probe \in {NoProbe, Probe(TicksPerSecond * CutDuration(h)),
                   Probe(TicksPerSecond * (CutDuration(h) + DURATION_TOLERANCE))},
        srt \in BOOLEAN}

\* the file process_segment writes for a segment
SegmentFile(n) == [kind |-> "segment", seg |-> n, pos |-> 0]

\* subtitled_segment_<pos>.mp4, made from the file of segment n
SubtitledFile(k, file) == [kind |-> "subtitled", seg |-> file.seg, pos |-> k]

Running ==
    [state |-> "running", returncode |-> 0, success |-> FALSE, duration |-> 0,
     subtitle |-> FALSE, raised |-> FALSE]

\* a future that holds the tuple r process_segment returned
Returned(r) ==
    [state |-> "done", returncode |-> r.returncode, success |-> r.success,
     duration |-> r.duration, subtitle |-> r.subtitle_path, raised |-> FALSE]

\* a future whose task raised (line 226: subprocess.run finds no ffmpeg);
\* future.result() re-raises the exception
Raised ==
    [state |-> "done", returncode |-> 0, success |-> FALSE, duration |-> 0,
     subtitle |-> FALSE, raised |-> TRUE]

\* what the task of highlight h can end with: what process_segment returns on
\* each outcome of its subprocesses, or an exception
TaskResults(h, subtitles) ==
    {Returned(process_segment(h, e, subtitles)) : e \in TaskEnvironments(h)}
    \cup {Raised}

\* mutant of CollectVerified: the success flag is not looked at
CollectVerified_Always(verified, file, success) == Append(verified, file)

\* lines 376-377: if success: verified_segments.append(segment_file)
CollectVerified(verified, file, success) ==
    IF success THEN Append(verified, file) ELSE verified

\* mutant of AllCollected: the pool is left without waiting for its tasks
AllCollected_NoWait == TRUE

\* lines 366-385: the with block is left when as_completed has handed out
\* every future
AllCollected == \A n \in DOMAIN futures : futures[n].state = "collected"

\* lines 290-293: the directories are created
MakeDirs ==
    /\ cpc = "start"
    /\ temp_dir_exists' = TRUE
    /\ cpc' = "load"
    /\ UNCHANGED <<json_items, generate_subtitles,
                   sorted_highlights, futures, verified_segments, segment_subtitles,
                   subtitled_segments, concat_list, manifest_written, concat_invoked,
                   concat_ok, error, mergeVars, planVars, segVars, mainVars, recentVars, runVars, callVars>>

\* lines 300-301: the file cannot be opened or is no JSON
LoadRaises ==
    /\ cpc = "load"
    /\ error' = "LoadError"
    /\ cpc' = "finally"
    /\ UNCHANGED <<json_items, generate_subtitles,
                   sorted_highlights, futures, verified_segments, segment_subtitles,
                   subtitled_segments, concat_list, manifest_written, concat_invoked,
                   concat_ok, temp_dir_exists, mergeVars, planVars, segVars, mainVars, recentVars, runVars, callVars>>

MergedOfDocument(shape) ==
    merge_overlapping_highlights(AddSourceVideo(HighlightsOfDocument(shape, json_items)))

\* the three early returns: unexpected JSON format, no highlights, nothing
\* left after merging
LoadReturnsEarly ==
    /\ cpc = "load"
    /\ \E shape \in Shapes :
           \/ shape \notin ListShapes
           \/ HighlightsOfDocument(shape, json_items) = <<>>
           \/ MergedOfDocument(shape) = <<>>
    /\ cpc' = "finally"
    /\ UNCHANGED <<json_items, generate_subtitles,
                   sorted_highlights, futures, verified_segments, segment_subtitles,
                   subtitled_segments, concat_list, manifest_written, concat_invoked,
                   concat_ok, temp_dir_exists, error, mergeVars, planVars, segVars, mainVars, recentVars, runVars, callVars>>

\* lines 299-369: the highlights are merged and sorted, and one task per
\* highlight is submitted to the pool
LoadAndSubmit ==
    /\ cpc = "load"
    /\ \E shape \in ListShapes, clip_order \in ClipOrders, clip_times \in ClipTimes :
           /\ MergedOfDocument(shape) # <<>>
           /\ sorted_highlights' =
                  SortByClipOrder(MergedOfDocument(shape), clip_order, clip_times)
    /\ futures' = [n \in DOMAIN sorted_highlights' |-> Running]
    /\ verified_segments' = <<>>
    /\ segment_subtitles' = {}
    /\ cpc' = "extract"
    /\ UNCHANGED <<json_items, generate_subtitles,
                   subtitled_segments, concat_list, manifest_written, concat_invoked,
                   concat_ok, temp_dir_exists, error, mergeVars, planVars, segVars, mainVars, recentVars, runVars, callVars>>

\* a worker finishes process_segment for one segment
TaskCompletes ==
    /\ cpc = "extract"
    /\ \E n \in DOMAIN futures :
           \E r \in TaskResults(sorted_highlights[n], generate_subtitles) :
           /\ futures[n].state = "running"
           /\ futures' = [futures EXCEPT ![n] = r]
    /\ UNCHANGED <<json_items, generate_subtitles,
                   sorted_highlights, verified_segments, segment_subtitles,
                   subtitled_segments, concat_list, manifest_written, concat_invoked,
                   concat_ok, temp_dir_exists, error, cpc, mergeVars, planVars, segVars, mainVars, recentVars, runVars, callVars>>

\* lines 372-385: one iteration of the as_completed loop; as_completed hands
\* out a finished future, in no order the caller chose
CollectResult ==
    /\ cpc = "extract"
    /\ \E n \in DOMAIN futures :
           /\ futures[n].state = "done"
           /\ futures' = [futures EXCEPT ![n].state = "collected"]
           /\ IF futures[n].raised
              THEN UNCHANGED <<verified_segments, segment_subtitles>>
              ELSE /\ verified_segments' =
                          CollectVerified(verified_segments, SegmentFile(n), futures[n].success)
                   /\ segment_subtitles' =
                          IF futures[n].success /\ futures[n].subtitle
                          THEN segment_subtitles \cup {SegmentFile(n)}
                          ELSE segment_subtitles
    /\ UNCHANGED <<json_items, generate_subtitles,
                   sorted_highlights, subtitled_segments, concat_list, manifest_written,
                   concat_invoked, concat_ok, temp_dir_exists, error, cpc,
                   mergeVars, planVars, segVars, mainVars, recentVars, runVars, callVars>>

\* lines 387-400: the pool is left, concat_list.txt is written from
\* verified_segments
WriteManifest ==
    /\ cpc = "extract"
    /\ AllCollected
    /\ concat_list' = verified_segments
    /\ manifest_written' = TRUE
    /\ subtitled_segments' = <<>>
    /\ cpc' = IF generate_subtitles /\ segment_subtitles # {} THEN "subtitle" ELSE "concat"
    /\ UNCHANGED <<json_items, generate_subtitles,
                   sorted_highlights, futures, verified_segments, segment_subtitles,
                   concat_invoked, concat_ok, temp_dir_exists, error, mergeVars, planVars, segVars, mainVars, recentVars, runVars, callVars>>

\* lines 391-392: concat_list.txt cannot be opened for writing
ManifestRaises ==
    /\ cpc = "extract"
    /\ AllCollected
    /\ error' = "OSError"
    /\ cpc' = "finally"
    /\ UNCHANGED <<json_items, generate_subtitles,
                   sorted_highlights, futures, verified_segments, segment_subtitles,
                   subtitled_segments, concat_list, manifest_written, concat_invoked,
                   concat_ok, temp_dir_exists, mergeVars, planVars, segVars, mainVars, recentVars, runVars, callVars>>

\* lines 404-408: the directory of the subtitled segments cannot be made, or
\* SubtitleGenerator() raises
SubtitleSetupRaises ==
    /\ cpc = "subtitle"
    /\ subtitled_segments = <<>>
    /\ error' = "SubtitleSetupError"
    /\ cpc' = "finally"
    /\ UNCHANGED <<json_items, generate_subtitles,
                   sorted_highlights, futures, verified_segments, segment_subtitles,
                   subtitled_segments, concat_list, manifest_written, concat_invoked,
                   concat_ok, temp_dir_exists, mergeVars, planVars, segVars, mainVars, recentVars, runVars, callVars>>

\* lines 410-460: one iteration of the subtitle loop; burning the subtitles
\* in succeeds, or fails and the original segment is kept
AddSubtitles ==
    /\ cpc = "subtitle"
    /\ Len(subtitled_segments) < Len(verified_segments)
    /\ LET k == Len(subtitled_segments) + 1
           file == verified_segments[k]
       IN \E burned \in BOOLEAN :
              subtitled_segments' =
                  IF file \in segment_subtitles /\ burned
                  THEN Append(subtitled_segments, SubtitledFile(k, file))
                  ELSE Append(subtitled_segments, file)
    /\ UNCHANGED <<json_items, generate_subtitles,
                   sorted_highlights, futures, verified_segments, segment_subtitles,
                   concat_list, manifest_written, concat_invoked, concat_ok,
                   temp_dir_exists, error, cpc, mergeVars, planVars, segVars, mainVars, recentVars, runVars, callVars>>

\* lines 463-465: concat_list.txt is rewritten from subtitled_segments
RewriteManifest ==
    /\ cpc = "subtitle"
    /\ Len(subtitled_segments) = Len(verified_segments)
    /\ concat_list' = subtitled_segments
    /\ cpc' = "concat"
    /\ UNCHANGED <<json_items, generate_subtitles,
                   sorted_highlights, futures, verified_segments, segment_subtitles,
                   subtitled_segments, manifest_written, concat_invoked, concat_ok,
                   temp_dir_exists, error, mergeVars, planVars, segVars, mainVars, recentVars, runVars, callVars>>

\* lines 468-483: the concat subprocess exits with 0 and leaves an output
ConcatSucceeds ==
    /\ cpc = "concat"
    /\ concat_list # <<>>
    /\ concat_invoked' = TRUE
    /\ concat_ok' = TRUE
    /\ cpc' = "finally"
    /\ UNCHANGED <<json_items, generate_subtitles,
                   sorted_highlights, futures, verified_segments, segment_subtitles,
                   subtitled_segments, concat_list, manifest_written, temp_dir_exists,
                   error, mergeVars, planVars, segVars, mainVars, recentVars, runVars, callVars>>

\* lines 468-491: the concat subprocess fails or leaves no output; the
\* failure is logged
ConcatFails ==
    /\ cpc = "concat"
    /\ concat_invoked' = TRUE
    /\ concat_ok' = FALSE
    /\ cpc' = "finally"
    /\ UNCHANGED <<json_items, generate_subtitles,
                   sorted_highlights, futures, verified_segments, segment_subtitles,
                   subtitled_segments, concat_list, manifest_written, temp_dir_exists,
                   error, mergeVars, planVars, segVars, mainVars, recentVars, runVars, callVars>>

\* line 475: subprocess.run raises, no ffmpeg is found
ConcatRaises ==
    /\ cpc = "concat"
    /\ error' = "FileNotFoundError"
    /\ cpc' = "finally"
    /\ UNCHANGED <<json_items, generate_subtitles,
                   sorted_highlights, futures, verified_segments, segment_subtitles,
                   subtitled_segments, concat_list, manifest_written, concat_invoked,
                   concat_ok, temp_dir_exists, mergeVars, planVars, segVars, mainVars, recentVars, runVars, callVars>>

\* mutant of RemoveTempDir: the directory is removed only when no exception
\* is on its way to the caller
RemoveTempDir_OnSuccessOnly(exists, err) == exists /\ err # "none"

\* lines 498-499: whether temp_segments exists after the finally block
RemoveTempDir(exists, err) == FALSE

\* lines 493-509: the finally block removes temp_segments; the function then
\* returns None, or the exception goes on to the caller
Finally ==
    /\ cpc = "finally"
    /\ temp_dir_exists' = RemoveTempDir(temp_dir_exists, error)
    /\ cpc' = IF error = "none" THEN "returned" ELSE "raised"
    /\ UNCHANGED <<json_items, generate_subtitles,
                   sorted_highlights, futures, verified_segments, segment_subtitles,
                   subtitled_segments, concat_list, manifest_written, concat_invoked,
                   concat_ok, error, mergeVars, planVars, segVars, mainVars, recentVars, runVars, callVars>>

(***************************************************************************)
(* Inputs of Spec                                                          *)
(***************************************************************************)
\* two highlights of "a" that do not merge, one of "b" named by video_path
\* alone, one without a source, and an item that is no dict
DocumentItems ==
    {Interval("a", Absent, 0, 1), Interval("a", Absent, MaxStart, 1),
     Interval(Absent, "b", 0, 1), Interval(Absent, Absent, 0, 1), NonDict}

\* the items of the document, whatever its shape
Documents == {Describe(q) : q \in SeqsUpTo(DocumentItems, MaxItems)}


(***************************************************************************)
(* Two runs of concatenate_highlights started in the same working          *)
(* directory.  Both use the relative path temp_segments (line 291), and    *)
(* name their files segment_<idx>.mp4 (line 194) and concat_list.txt (line *)
(* 391).  File 0 is concat_list.txt, file n is the segment with idx n - 1. *)
(***************************************************************************)
Runs == {1, 2}
NoRun == 0
ManifestFile == 0
Files == 0..MaxRunSegments

\* what run r does to file f, when the file was last written by another run
Touch(r, f, kind) ==
    IF fs_owner[f] \notin {NoRun, r}
    THEN {[by |-> r, file |-> f, of |-> fs_owner[f], kind |-> kind]}
    ELSE {}

\* lines 290-293: os.makedirs(temp_dir, exist_ok=True)
RunMakeDirs ==
    \E r \in Runs :
        /\ run_pc[r] = "start"
        /\ fs_dir' = TRUE
        /\ run_pc' = [run_pc EXCEPT ![r] = "extract"]
        /\ UNCHANGED <<run_segments, run_written, fs_owner, interference, mergeVars,
                       planVars, pipeVars, segVars, mainVars, recentVars, callVars>>

\* line 226: ffmpeg -y writes segment_<idx>.mp4 over whatever is there; with
\* the directory gone the re-encode fails and nothing is written
RunWriteSegment ==
    \E r \in Runs :
        /\ run_pc[r] = "extract"
        /\ run_written[r] < run_segments[r]
        /\ LET f == run_written[r] + 1
           IN IF fs_dir
              THEN /\ fs_owner' = [fs_owner EXCEPT ![f] = r]
                   /\ interference' = interference \cup Touch(r, f, "overwrite")
              ELSE UNCHANGED <<fs_owner, interference>>
        /\ run_written' = [run_written EXCEPT ![r] = @ + 1]
        /\ UNCHANGED <<run_segments, run_pc, fs_dir, mergeVars, planVars, pipeVars,
                       segVars, mainVars, recentVars, callVars>>

\* lines 391-394: concat_list.txt is opened for writing; with the directory
\* gone open raises and the run goes to its finally block
RunWriteManifest ==
    \E r \in Runs :
        /\ run_pc[r] = "extract"
        /\ run_written[r] = run_segments[r]
        /\ IF fs_dir
           THEN /\ fs_owner' = [fs_owner EXCEPT ![ManifestFile] = r]
                /\ interference' = interference \cup Touch(r, ManifestFile, "overwrite")
                /\ run_pc' = [run_pc EXCEPT ![r] = "concat"]
           ELSE /\ run_pc' = [run_pc EXCEPT ![r] = "finally"]
                /\ UNCHANGED <<fs_owner, interference>>
        /\ UNCHANGED <<run_segments, run_written, fs_dir, mergeVars, planVars, pipeVars,
                       segVars, mainVars, recentVars, callVars>>

\* line 475: the concat subprocess reads concat_list.txt and the segment
\* files of the run
RunConcat ==
    \E r \in Runs :
        /\ run_pc[r] = "concat"
        /\ interference' = interference
               \cup UNION {Touch(r, f, "read") : f \in 0..run_segments[r]}
        /\ run_pc' = [run_pc EXCEPT ![r] = "finally"]
        /\ UNCHANGED <<run_segments, run_written, fs_dir, fs_owner, mergeVars, planVars,
                       pipeVars, segVars, mainVars, recentVars, callVars>>

\* lines 496-500: if os.path.exists(temp_dir): shutil.rmtree(temp_dir)
RunCleanup ==
    \E r \in Runs :
        /\ run_pc[r] = "finally"
        /\ fs_dir' = FALSE
        /\ fs_owner' = [f \in Files |-> NoRun]
        /\ interference' = interference
               \cup (IF fs_dir THEN UNION {Touch(r, f, "delete") : f \in Files} ELSE {})
        /\ run_pc' = [run_pc EXCEPT ![r] = "ended"]
        /\ UNCHANGED <<run_segments, run_written, mergeVars, planVars, pipeVars,
                       segVars, mainVars, recentVars, callVars>>

(***************************************************************************)
(* Inputs of SpecSegment                                                   *)
(***************************************************************************)
\* a highlight of one second, one of no length, and one that ends before it
\* starts by more than the two seconds added to its end
SegmentLengths == {-3, 0, 1}

SegmentHighlights == {Interval("a", Absent, 0, len) : len \in SegmentLengths}

\* no output, or any duration up to MaxProbe seconds
Probes == {NoProbe} \cup {Probe(n) : n \in 0..(TicksPerSecond * MaxProbe)}

Environments ==
    {Environment(rc, exists, size, probe, srt) :
        rc \in {0, 1}, exists \in BOOLEAN, size \in {0, 1}, probe \in Probes,
        srt \in BOOLEAN}

NoResult ==
    [returncode |-> 0, success |-> FALSE, duration |-> 0, subtitle_path |-> FALSE,
     encodes |-> 0]

(***************************************************************************)
(* Specifications                                                          *)
(***************************************************************************)
CallIdle == first_call = NoCall

RunsIdle ==
    /\ run_segments = [r \in Runs |-> 0]
    /\ run_written = [r \in Runs |-> 0]
    /\ run_pc = [r \in Runs |-> "idle"]
    /\ fs_dir = FALSE
    /\ fs_owner = [f \in Files |-> NoRun]
    /\ interference = {}

RecentIdle ==
    /\ dir_clips = <<>>
    /\ allow_clip_reuse = FALSE
    /\ skip_videos = 0
    /\ max_clips = 1
    /\ video_paths = <<>>
    /\ results = <<>>
    /\ previously_analyzed_results = <<>>
    /\ analyzed_data = {}
    /\ highlights_file = {}
    /\ video_outcome = "none"
    /\ used_clips = {}
    /\ marked = FALSE
    /\ rpc = "idle"

MainIdle ==
    /\ source_exists = [p \in Paths |-> TRUE]
    /\ output_highlights = <<>>
    /\ main_error = "none"
    /\ apc = "idle"

SegIdle ==
    /\ seg_highlight = Interval("a", Absent, 0, 0)
    /\ seg_subtitles = FALSE
    /\ seg_env = Environment(0, FALSE, 0, NoProbe, FALSE)
    /\ seg_result = NoResult
    /\ spc = "idle"

MergeIdle ==
    /\ highlights = <<>>
    /\ merged_highlights = <<>>
    /\ remerged_highlights = <<>>
    /\ heap_after = EmptyHeap
    /\ mpc = "idle"

PlanIdle ==
    /\ db_clips = <<>>
    /\ include_used_clips = FALSE
    /\ target_duration = 0
    /\ all_highlights = <<>>
    /\ selected_highlights = <<>>
    /\ current_duration = 0
    /\ i = 0
    /\ remaining_highlights = <<>>
    /\ phase2 = FALSE
    /\ plan = NoPlan
    /\ raised = "none"
    /\ ppc = "idle"

PipeIdle ==
    /\ json_items = <<>>
    /\ generate_subtitles = FALSE
    /\ sorted_highlights = <<>>
    /\ futures = <<>>
    /\ verified_segments = <<>>
    /\ segment_subtitles = {}
    /\ subtitled_segments = <<>>
    /\ concat_list = <<>>
    /\ manifest_written = FALSE
    /\ concat_invoked = FALSE
    /\ concat_ok = FALSE
    /\ temp_dir_exists = FALSE
    /\ error = "none"
    /\ cpc = "idle"

\* SpecMerge: one call of merge, then a second call on its result
InitMerge ==
    /\ highlights \in MergeInputs
    /\ merged_highlights = <<>>
    /\ remerged_highlights = <<>>
    /\ heap_after = EmptyHeap
    /\ mpc = "call"
    /\ PlanIdle
    /\ PipeIdle
    /\ SegIdle
    /\ MainIdle
    /\ RecentIdle
    /\ RunsIdle
    /\ CallIdle

MergeCall ==
    /\ mpc = "call"
    /\ merged_highlights' = merge_overlapping_highlights(highlights)
    /\ mpc' = "merged"
    /\ heap_after' = MergeOnHeap(highlights)
    /\ UNCHANGED <<highlights, remerged_highlights, planVars, pipeVars, segVars, mainVars, recentVars, runVars, callVars>>

MergeAgain ==
    /\ mpc = "merged"
    /\ remerged_highlights' = merge_overlapping_highlights(merged_highlights)
    /\ merged_highlights' = InputAfterMerge(merged_highlights)
    /\ mpc' = "remerged"
    /\ UNCHANGED <<highlights, heap_after, planVars, pipeVars, segVars, mainVars, recentVars, runVars, callVars>>

NextMerge == MergeCall \/ MergeAgain

SpecMerge == InitMerge /\ [][NextMerge]_vars

\* SpecPlan: one call of plan_compilation on a clips table
InitPlan ==
    /\ db_clips \in Tables
    /\ include_used_clips \in BOOLEAN
    /\ target_duration \in 0..MaxTarget
    /\ all_highlights = <<>>
    /\ selected_highlights = <<>>
    /\ current_duration = 0
    /\ i = 0
    /\ remaining_highlights = <<>>
    /\ phase2 = FALSE
    /\ plan = NoPlan
    /\ raised = "none"
    /\ ppc = "start"
    /\ MergeIdle
    /\ PipeIdle
    /\ SegIdle
    /\ MainIdle
    /\ RecentIdle
    /\ RunsIdle
    /\ CallIdle

NextPlan ==
    \/ PlanNoAnalyzedClips
    \/ PlanClipSortRaises
    \/ PlanAnalysisKeyError
    \/ PlanGather
    \/ Phase1Skip
    \/ Phase1Accept
    \/ EnterPhase2
    \/ SkipPhase2
    \/ Phase2Add
    \/ Phase2End
    \/ BuildPlan

SpecPlan == InitPlan /\ [][NextPlan]_vars

\* SpecScenario: the merge and plan_compilation, each called on one pool
InitScenario ==
    /\ \E q \in ScenarioPools :
           /\ highlights = AsCandidates(q)
           /\ db_clips \in ScenarioTables(q)
    /\ merged_highlights = <<>>
    /\ remerged_highlights = <<>>
    /\ heap_after = EmptyHeap
    /\ mpc = "call"
    /\ include_used_clips \in BOOLEAN
    /\ target_duration \in ScenarioTargets
    /\ all_highlights = <<>>
    /\ selected_highlights = <<>>
    /\ current_duration = 0
    /\ i = 0
    /\ remaining_highlights = <<>>
    /\ phase2 = FALSE
    /\ plan = NoPlan
    /\ raised = "none"
    /\ ppc = "start"
    /\ PipeIdle
    /\ SegIdle
    /\ MainIdle
    /\ RecentIdle
    /\ RunsIdle
    /\ CallIdle

NextScenario == NextMerge \/ NextPlan

SpecScenario == InitScenario /\ [][NextScenario]_vars

\* SpecTwoCalls: plan_compilation called twice on one clips table
InitTwoCalls ==
    /\ \E q \in ScenarioPools : db_clips \in ScenarioTables(q)
    /\ include_used_clips \in BOOLEAN
    /\ target_duration \in ScenarioTargets
    /\ all_highlights = <<>>
    /\ selected_highlights = <<>>
    /\ current_duration = 0
    /\ i = 0
    /\ remaining_highlights = <<>>
    /\ phase2 = FALSE
    /\ plan = NoPlan
    /\ raised = "none"
    /\ ppc = "start"
    /\ first_call = NoCall
    /\ MergeIdle
    /\ PipeIdle
    /\ SegIdle
    /\ MainIdle
    /\ RecentIdle
    /\ RunsIdle

NextTwoCalls == NextPlan \/ PlanCallAgain

SpecTwoCalls == InitTwoCalls /\ [][NextTwoCalls]_vars

\* Spec: one run of concatenate_highlights
Init ==
    /\ json_items \in Documents
    /\ generate_subtitles \in BOOLEAN
    /\ sorted_highlights = <<>>
    /\ futures = <<>>
    /\ verified_segments = <<>>
    /\ segment_subtitles = {}
    /\ subtitled_segments = <<>>
    /\ concat_list = <<>>
    /\ manifest_written = FALSE
    /\ concat_invoked = FALSE
    /\ concat_ok = FALSE
    /\ temp_dir_exists = FALSE
    /\ error = "none"
    /\ cpc = "start"
    /\ MergeIdle
    /\ PlanIdle
    /\ SegIdle
    /\ MainIdle
    /\ RecentIdle
    /\ RunsIdle
    /\ CallIdle

Next ==
    \/ MakeDirs
    \/ LoadRaises
    \/ LoadReturnsEarly
    \/ LoadAndSubmit
    \/ TaskCompletes
    \/ CollectResult
    \/ WriteManifest
    \/ ManifestRaises
    \/ SubtitleSetupRaises
    \/ AddSubtitles
    \/ RewriteManifest
    \/ ConcatSucceeds
    \/ ConcatFails
    \/ ConcatRaises
    \/ Finally

Spec == Init /\ [][Next]_vars

\* SpecMain: one run of async_main from plan_compilation on
InitMain ==
    /\ db_clips \in Tables
    /\ include_used_clips \in BOOLEAN
    /\ target_duration \in 0..MaxMainTarget
    /\ all_highlights = <<>>
    /\ selected_highlights = <<>>
    /\ current_duration = 0
    /\ i = 0
    /\ remaining_highlights = <<>>
    /\ phase2 = FALSE
    /\ plan = NoPlan
    /\ raised = "none"
    /\ ppc = "start"
    /\ source_exists = [p \in Paths |-> TRUE]
    /\ output_highlights = <<>>
    /\ main_error = "none"
    /\ apc = "plan"
    /\ MergeIdle
    /\ PipeIdle
    /\ SegIdle
    /\ RecentIdle
    /\ RunsIdle
    /\ CallIdle

NextMain ==
    \/ NextPlan
    \/ MainPlanRaised
    \/ MainNoHighlights
    \/ CompileMissingSource
    \/ CompileFfmpegFails
    \/ CompileSucceeds
    \/ MarkClipsAsUsed

SpecMain == InitMain /\ [][NextMain]_vars

\* SpecRecent: one run of process_recent_clips from the filter of used clips on
InitRecent ==
    /\ dir_clips \in Directories
    /\ allow_clip_reuse \in BOOLEAN
    /\ skip_videos \in {0, 1}
    /\ max_clips \in {1, MaxClips}
    /\ video_paths = <<>>
    /\ results = <<>>
    /\ previously_analyzed_results = <<>>
    /\ analyzed_data = {k \in DOMAIN dir_clips : dir_clips[k].analyzed}
    /\ highlights_file = {}
    /\ video_outcome = "none"
    /\ used_clips = {k \in DOMAIN dir_clips : dir_clips[k].used}
    /\ marked = FALSE
    /\ rpc = "start"
    /\ MergeIdle
    /\ PlanIdle
    /\ PipeIdle
    /\ SegIdle
    /\ MainIdle
    /\ RunsIdle
    /\ CallIdle

NextRecent ==
    \/ RecentFilter
    \/ RecentAnalyze
    \/ GenerateReturns
    \/ GenerateRaises
    \/ RecentMark

SpecRecent == InitRecent /\ [][NextRecent]_vars

\* SpecTwoRuns: two runs started in one working directory, each with at
\* least one highlight to extract
InitTwoRuns ==
    /\ run_segments \in [Runs -> 1..MaxRunSegments]
    /\ run_written = [r \in Runs |-> 0]
    /\ run_pc = [r \in Runs |-> "start"]
    /\ fs_dir = FALSE
    /\ fs_owner = [f \in Files |-> NoRun]
    /\ interference = {}
    /\ MergeIdle
    /\ PlanIdle
    /\ PipeIdle
    /\ SegIdle
    /\ MainIdle
    /\ RecentIdle
    /\ CallIdle

NextTwoRuns ==
    \/ RunMakeDirs
    \/ RunWriteSegment
    \/ RunWriteManifest
    \/ RunConcat
    \/ RunCleanup

SpecTwoRuns == InitTwoRuns /\ [][NextTwoRuns]_vars

\* SpecSegment: one call of process_segment
InitSegment ==
    /\ seg_highlight \in SegmentHighlights
    /\ seg_subtitles \in BOOLEAN
    /\ seg_env \in Environments
    /\ seg_result = NoResult
    /\ spc = "call"
    /\ MergeIdle
    /\ PlanIdle
    /\ PipeIdle
    /\ MainIdle
    /\ RecentIdle
    /\ RunsIdle
    /\ CallIdle

ProcessSegment ==
    /\ spc = "call"
    /\ seg_result' = process_segment(seg_highlight, seg_env, seg_subtitles)
    /\ spc' = "returned"
    /\ UNCHANGED <<seg_highlight, seg_subtitles, seg_env, mergeVars, planVars, pipeVars, mainVars, recentVars, runVars, callVars>>

NextSegment == ProcessSegment

SpecSegment == InitSegment /\ [][NextSegment]_vars

(***************************************************************************)
(* Properties of concatenate_highlights (Spec)                             *)
(***************************************************************************)
\* C1: the manifest lists the verified segment files in playback order, the
\* order of the sorted highlights (ascending segment index), whatever the
\* order in which the extraction tasks complete.
C1_ManifestInPlaybackOrder ==
    manifest_written =>
        \A x, y \in DOMAIN concat_list :
            x < y => concat_list[x].seg < concat_list[y].seg

\* C9: when every extraction task fails, the run fails with
\* NoVerifiedSegmentsError before any concatenation attempt: the concat
\* subprocess is never run, and the temporary directory is removed.
C9_NoVerifiedSegmentsFails ==
    (futures # <<>> /\ AllCollected /\ verified_segments = <<>>) =>
        /\ ~concat_invoked
        /\ cpc \in {"returned", "raised"} =>
               (cpc = "raised" /\ error = "NoVerifiedSegmentsError" /\ ~temp_dir_exists)

\* C10: assembly filtering: the manifest never holds the file of a segment
\* whose extraction did not report success, before and after the subtitle
\* pass rewrites it.
C10_ManifestOnlyVerified ==
    manifest_written =>
        \A k \in DOMAIN concat_list :
            /\ futures[concat_list[k].seg].success
            /\ ~futures[concat_list[k].seg].raised

\* the subtitle pass has rewritten the manifest of a run in which one
\* extraction failed and another raised
C10_Witness ==
    /\ cpc = "concat"
    /\ generate_subtitles
    /\ \E k \in DOMAIN concat_list : concat_list[k].kind = "subtitled"
    /\ \E k \in DOMAIN concat_list : concat_list[k].kind = "segment"
    /\ \E n \in DOMAIN futures : ~futures[n].success /\ ~futures[n].raised

Ended == cpc \in {"returned", "raised"}

\* C12: the temporary working directory no longer exists when
\* concatenate_highlights ends, on every exit path: normal completion, each
\* early return, a failed concatenation, and an exception raised at any stage.
C12_TempDirRemoved == Ended => ~temp_dir_exists

\* the run ended with an exception raised after the manifest was written
C12_Witness ==
    /\ cpc = "raised"
    /\ error = "FileNotFoundError"
    /\ manifest_written
    /\ ~temp_dir_exists

\* C13: a failed concatenation is never reported as success: when the concat
\* subprocess exits non-zero or leaves no output, concatenate_highlights ends
\* with an exception for its caller.
C13_ConcatFailureSignalled ==
    (Ended /\ concat_invoked /\ ~concat_ok) => cpc = "raised"

\* C14: per-segment failure isolation: a segment whose re-encode exits
\* non-zero, or whose task raises, is unverified with duration 0; the run goes
\* on to the manifest, which holds every segment that was verified.
C14_FailureIsolation ==
    /\ \A n \in DOMAIN futures :
           (futures[n].state # "running" /\ (futures[n].returncode # 0 \/ futures[n].raised))
           => (~futures[n].success /\ futures[n].duration = 0)
    /\ cpc = "extract" => error = "none"
    /\ (cpc = "finally" /\ futures # <<>> /\ ~manifest_written) => error = "OSError"
    /\ manifest_written =>
           \A n \in DOMAIN futures :
               futures[n].success => \E k \in DOMAIN concat_list : concat_list[k].seg = n

\* the manifest of a run in which one re-encode exited non-zero and one task
\* raised holds the segment that was verified
C14_Witness ==
    /\ manifest_written
    /\ \E n \in DOMAIN futures : futures[n].returncode # 0
    /\ \E n \in DOMAIN futures : futures[n].raised
    /\ \E n \in DOMAIN futures :
           futures[n].success /\ \E k \in DOMAIN concat_list : concat_list[k].seg = n

\* C15: join barrier: the manifest is written and the concat subprocess is
\* run only after every submitted extraction task has completed and its
\* result has been collected.
C15_JoinBarrier ==
    (manifest_written \/ concat_invoked \/ cpc \in {"subtitle", "concat"}) =>
        \A n \in DOMAIN futures : futures[n].state = "collected"

\* the concat subprocess has run after three tasks, not all of them
\* successful, were collected
C15_Witness ==
    /\ concat_invoked
    /\ Len(futures) = 3
    /\ \E n \in DOMAIN futures : ~futures[n].success
    /\ \E n \in DOMAIN futures : futures[n].success

(***************************************************************************)
(* Properties of process_segment (SpecSegment)                             *)
(***************************************************************************)
\* how far, in ticks, the probed duration is from the duration asked for
Drift == Abs(seg_env.probe.ticks - TicksPerSecond * CutDuration(seg_highlight))

\* C11: extraction duration contract: a segment returned as verified has an
\* actual duration a with |a - (end_seconds - start_seconds + 2)| <= 3.
C11_DurationContract ==
    (spc = "returned" /\ seg_result.success) =>
        Abs(seg_result.duration
            - TicksPerSecond * (seg_highlight.timestamp_end_seconds
                                - seg_highlight.timestamp_start_seconds + 2))
        <= 3 * TicksPerSecond

\* a segment was verified although its duration is not the one asked for
C11_Witness ==
    /\ spc = "returned"
    /\ seg_result.success
    /\ seg_result.duration # TicksPerSecond * CutDuration(seg_highlight)

\* C17: drift retry: when the first extraction succeeds with a duration that
\* is off by more than the tolerance, the extractor re-encodes exactly once
\* more, two re-encodes in all.
C17_DriftRetriedOnce ==
    (spc = "returned" /\ seg_env.returncode = 0 /\ seg_env.exists /\ seg_env.size > 0
        /\ ~seg_env.probe.empty /\ Drift > 3 * TicksPerSecond)
    => seg_result.encodes = 2

C18_MarkedOnlyAfterSuccess == marked => video_outcome = "video"

\* C19: the clips marked as used by a run are exactly the sources that
\* contributed at least one highlight to the compilation, sources whose
\* highlights came from a stored analysis included.
C19_MarkedExactlyContributors ==
    (rpc = "returned" /\ marked) =>
        /\ highlights_file \subseteq used_clips
        /\ SuccessfulClips(results) \subseteq highlights_file

(***************************************************************************)
(* Properties of concurrent runs (SpecTwoRuns)                             *)
(***************************************************************************)
\* C20: the working directory is exclusively owned by one run: of two
\* concurrent runs, neither reads, overwrites or deletes a segment file or
\* the manifest that the other run wrote.
C20_ExclusiveWorkdir == interference = {}

(***************************************************************************)
(* Properties of merge_overlapping_highlights (SpecMerge)                  *)
(***************************************************************************)
Starts(h) == h.timestamp_start_seconds
Ends(h) == h.timestamp_end_seconds

\* C2: merge idempotence: merging the result of a merge returns it unchanged,
\* with the same intervals, the same descriptions and the same order.
C2_MergeIdempotent ==
    mpc = "remerged" => remerged_highlights = merged_highlights

\* a first call that merged something and returned several intervals, followed
\* by the second call
C2_Witness ==
    /\ mpc = "remerged"
    /\ Len(merged_highlights) >= 2
    /\ \E k \in DOMAIN merged_highlights : Len(merged_highlights[k].clip_description) >= 2

\* the input is exactly two candidates of one source
TwoOfOneSource ==
    /\ Len(highlights) = 2
    /\ IsDict(highlights[1]) /\ IsDict(highlights[2])
    /\ Source(highlights[1]) # Absent
    /\ Source(highlights[1]) = Source(highlights[2])

\* the result is the one interval that spans both, described by both
MergedIntoOne ==
    /\ Len(merged_highlights) = 1
    /\ Starts(merged_highlights[1]) = Min(Starts(highlights[1]), Starts(highlights[2]))
    /\ Ends(merged_highlights[1]) = Max(Ends(highlights[1]), Ends(highlights[2]))
    /\ merged_highlights[1].clip_description \in
           {highlights[1].clip_description \o highlights[2].clip_description,
            highlights[2].clip_description \o highlights[1].clip_description}

\* C3 as stated: any two candidates of one source with end1 + 3 >= start2 are
\* returned as one interval from min(start) to max(end) whose description
\* joins both descriptions.
C3_MergeCorrectness_Original ==
    (mpc = "merged" /\ TwoOfOneSource
        /\ Ends(highlights[1]) + GAP_TOLERANCE >= Starts(highlights[2]))
    => MergedIntoOne

\* C3 as amended: two candidates of one source with start1 <= start2 and
\* end1 + 3 >= start2 are returned as one interval from min(start) to max(end)
\* whose description joins both descriptions.
C3_MergeCorrectness ==
    (mpc = "merged" /\ TwoOfOneSource
        /\ Starts(highlights[1]) <= Starts(highlights[2])
        /\ Ends(highlights[1]) + GAP_TOLERANCE >= Starts(highlights[2]))
    => MergedIntoOne

\* two candidates exactly the tolerance apart have been merged
C3_Witness ==
    /\ mpc = "merged"
    /\ TwoOfOneSource
    /\ Starts(highlights[1]) < Starts(highlights[2])
    /\ Ends(highlights[1]) + GAP_TOLERANCE = Starts(highlights[2])
    /\ MergedIntoOne

\* C4: no cross-source merging: every returned interval is built only from
\* candidates of its own source, whatever the overlap with other sources.
C4_NoCrossSourceMerge ==
    mpc \in {"merged", "remerged"} =>
        \A k \in DOMAIN merged_highlights :
            /\ Source(merged_highlights[k]) # Absent
            /\ \A d \in Range(merged_highlights[k].clip_description) :
                   /\ IsDict(highlights[d])
                   /\ Source(highlights[d]) = Source(merged_highlights[k])

\* candidates of two sources start at the same second, and the merge has
\* combined two candidates of one of them
C4_Witness ==
    /\ mpc = "merged"
    /\ \E x, y \in DOMAIN highlights :
           /\ IsDict(highlights[x]) /\ IsDict(highlights[y])
           /\ Source(highlights[x]) = "a" /\ Source(highlights[y]) = "b"
           /\ Starts(highlights[x]) = Starts(highlights[y])
    /\ \E k \in DOMAIN merged_highlights : Len(merged_highlights[k].clip_description) >= 2

\* the pairs <<merged, next_highlight>> at which the inner loop takes its
\* merge branch, from merged and index j on
RECURSIVE InnerSteps(_, _, _)
InnerSteps(vh, merged, j) ==
    IF j <= Len(vh) /\ MergeCondition(merged, vh[j])
    THEN {<<merged, vh[j]>>} \cup InnerSteps(vh, Absorb(merged, vh[j]), j + 1)
    ELSE {}

RECURSIVE SweepSteps(_, _)
SweepSteps(vh, at) ==
    IF at > Len(vh) THEN {}
    ELSE InnerSteps(vh, vh[at], at + 1) \cup SweepSteps(vh, InnerLoop(vh, vh[at], at + 1).j)

\* every merge the call on hs performs
MergeSteps(hs) ==
    LET valid == ValidHighlights(hs)
        keys == GroupKeys(valid)
    IN UNION {SweepSteps(SortByStart(Group(valid, keys[k])), 1) : k \in DOMAIN keys}

\* the first clause of the merge rule is false at this merge: the gap is
\* larger than the tolerance
GapExceedsTolerance(step) == Ends(step[1]) + GAP_TOLERANCE < Starts(step[2])

\* every candidate ends after it starts
EndsAfterStarts(hs) ==
    \A k \in DOMAIN hs : IsDict(hs[k]) => Ends(hs[k]) > Starts(hs[k])

\* C25 as stated: there are candidates of one source, each with end > start,
\* for which the sweep merges the next candidate although
\* merged.end + 3 < next.start.
C25_SecondClauseAlone_Original ==
    mpc = "call" =>
        \E hs \in MergeInputs :
            /\ EndsAfterStarts(hs)
            /\ \E step \in MergeSteps(hs) : GapExceedsTolerance(step)

\* C25 as amended: the second clause causes a merge by itself only when the
\* merged interval ends before it starts: whenever the sweep merges the next
\* candidate although merged.end + 3 < next.start, merged.end < merged.start;
\* among candidates that all have end >= start every merge satisfies the
\* first clause.
C25_SecondClauseAlone ==
    mpc = "merged" =>
        \A step \in MergeSteps(highlights) :
            GapExceedsTolerance(step) => Ends(step[1]) < Starts(step[1])

\* the sweep merged a candidate across a gap larger than the tolerance
C25_Witness ==
    /\ mpc = "merged"
    /\ \E step \in MergeSteps(highlights) :
           /\ GapExceedsTolerance(step)
           /\ Abs(Starts(step[1]) - Starts(step[2])) <= GAP_TOLERANCE

\* C27: the merge leaves its input unchanged: after the call every item of
\* the caller's list has its original start, end and description and its
\* original place, and every returned record is a dict the call created.
C27_InputsUnchanged ==
    mpc \in {"merged", "remerged"} =>
        /\ CallersList(heap_after.heap, Len(highlights)) = highlights
        /\ Range(heap_after.out) \cap DOMAIN highlights = {}

\* the call merged a later item of the list into an earlier one of the same
\* source and returned another item by itself
C27_Witness ==
    /\ mpc = "merged"
    /\ Len(highlights) = 3
    /\ \E k \in DOMAIN merged_highlights : merged_highlights[k].clip_description = <<3, 1>>
    /\ \E k \in DOMAIN merged_highlights : merged_highlights[k].clip_description = <<2>>

\* consecutive intervals of one source in a returned list are in order of
\* start and further apart than the tolerance, from end to start and from
\* start to start
Separated(out) ==
    \A k \in 1..(Len(out) - 1) :
        Source(out[k]) = Source(out[k + 1]) =>
            /\ Starts(out[k]) <= Starts(out[k + 1])
            /\ Ends(out[k]) + GAP_TOLERANCE < Starts(out[k + 1])
            /\ Starts(out[k + 1]) - Starts(out[k]) > GAP_TOLERANCE

\* C29: merged intervals of one source are sorted and separated: any two
\* consecutive intervals m1, m2 of the same source in the output satisfy
\* m1.start <= m2.start, m1.end + 3 < m2.start and m2.start - m1.start > 3.
C29_MergedSeparated ==
    /\ (mpc \in {"merged", "remerged"} => Separated(merged_highlights))
    /\ (mpc = "remerged" => Separated(remerged_highlights))

\* the call returned two intervals of one source, the first of them merged
\* from two candidates
C29_Witness ==
    /\ mpc = "merged"
    /\ \E k \in 1..(Len(merged_highlights) - 1) :
           /\ Source(merged_highlights[k]) = Source(merged_highlights[k + 1])
           /\ Len(merged_highlights[k].clip_description) = 2

\* the returned intervals that assimilated candidate k
Assimilating(out, k) == {n \in DOMAIN out : k \in Range(out[n].clip_description)}

\* C30: the merge loses no highlight: for every candidate that has a source,
\* exactly one returned interval assimilated it, that interval is of the same
\* source and covers the candidate from start to end; and the call returns no
\* more intervals than it was given candidates.
C30_MergeLosesNoHighlight ==
    mpc = "merged" =>
        /\ Len(merged_highlights) <= Len(highlights)
        /\ \A k \in DOMAIN highlights :
               (IsDict(highlights[k]) /\ Source(highlights[k]) # Absent) =>
                   /\ Cardinality(Assimilating(merged_highlights, k)) = 1
                   /\ \A n \in Assimilating(merged_highlights, k) :
                          /\ Source(merged_highlights[n]) = Source(highlights[k])
                          /\ Starts(merged_highlights[n]) <= Starts(highlights[k])
                          /\ Ends(highlights[k]) <= Ends(merged_highlights[n])

\* a candidate was merged into an interval that starts before it and ends
\* after it, next to an item of the list that has no source
C30_Witness ==
    /\ mpc = "merged"
    /\ \E k \in DOMAIN highlights : IsDict(highlights[k]) /\ Source(highlights[k]) = Absent
    /\ \E k \in DOMAIN highlights, n \in DOMAIN merged_highlights :
           /\ IsDict(highlights[k])
           /\ k \in Range(merged_highlights[n].clip_description)
           /\ Starts(merged_highlights[n]) < Starts(highlights[k])
           /\ Ends(highlights[k]) < Ends(merged_highlights[n])

(***************************************************************************)
(* Properties of plan_compilation (SpecPlan)                               *)
(***************************************************************************)
\* the candidates gathered for selection, before any is selected
Pool == ExtractHighlights(CandidateClips)

SameInterval(g, h) ==
    /\ g.source_path = h.source_path
    /\ g.start_time = h.start_time
    /\ g.end_time = h.end_time

\* how many entries of hs have the interval of h
Occurrences(hs, h) == Cardinality({k \in DOMAIN hs : SameInterval(hs[k], h)})

\* C5: selection respects the ceiling: a plan returned without the second
\* pass has an achieved duration of at most 110% of the target.
C5_SelectionRespectsCeiling ==
    (ppc = "done" /\ ~phase2) =>
        10 * plan.total_duration <= 11 * plan.target_duration

\* a plan built by the first pass alone that goes over the target, after a
\* candidate was skipped
C5_Witness ==
    /\ ppc = "done" /\ ~phase2
    /\ plan.total_duration > plan.target_duration
    /\ plan.target_duration > 0
    /\ Len(plan.highlights) >= 2

C8_EmptyPoolRaises ==
    (\A k \in DOMAIN CandidateClips : CandidateClips[k].analysis.highlights = <<>>)
    => plan = NoPlan

\* C22: plan consistency: in every plan returned, with or without the second
\* pass, total_duration is the sum of the duration fields of its highlights,
\* and the duration of each highlight is its end time minus its start time.
C22_PlanConsistency ==
    ppc = "done" =>
        /\ plan.total_duration = SumDurations(plan.highlights)
        /\ \A k \in DOMAIN plan.highlights :
               plan.highlights[k].duration
                   = plan.highlights[k].end_time - plan.highlights[k].start_time

\* a plan of three highlights, one of them added by the second pass and one
\* that does not start at second 0
C22_Witness ==
    /\ ppc = "done" /\ phase2
    /\ Len(plan.highlights) = 3
    /\ plan.total_duration > 0
    /\ \E k \in DOMAIN plan.highlights : plan.highlights[k].start_time > 0

\* (source_path, start_time) of g is at most that of h
SourceAndStartLeq(g, h) ==
    \/ PathRank(g.source_path) < PathRank(h.source_path)
    \/ /\ g.source_path = h.source_path
       /\ g.start_time <= h.start_time

\* C23: the highlights of a returned plan are in ascending order of
\* (source_path, start_time), whatever order the durations and the second
\* pass put them in.
C23_PlanOrderedBySourceAndStart ==
    ppc = "done" =>
        \A k \in 1..(Len(plan.highlights) - 1) :
            SourceAndStartLeq(plan.highlights[k], plan.highlights[k + 1])

\* the second pass ran, and the plan holds a longer highlight before a
\* shorter one that starts later: neither the duration order nor the
\* selection order
C23_Witness ==
    /\ ppc = "done" /\ phase2
    /\ \E k \in 1..(Len(plan.highlights) - 1) :
           /\ plan.highlights[k].duration > plan.highlights[k + 1].duration
           /\ plan.highlights[k].start_time < plan.highlights[k + 1].start_time

\* the longest duration among hs, 0 when hs is empty
LongestDuration(hs) ==
    IF hs = <<>> THEN 0
    ELSE CHOOSE d \in {hs[k].duration : k \in DOMAIN hs} :
             \A k \in DOMAIN hs : hs[k].duration <= d

\* C26 as stated: for every pool and every positive target the achieved
\* duration of the plan returned is at most twice the target.
C26_OvershootBound_Original ==
    (ppc = "done" /\ target_duration > 0) =>
        plan.total_duration <= 2 * plan.target_duration

\* C26 as amended: for every pool and every positive target the achieved
\* duration of the plan returned is at most 110% of the target or less than
\* the target plus the longest duration in the pool; it can exceed twice the
\* target.
C26_OvershootBound ==
    (ppc = "done" /\ target_duration > 0) =>
        \/ 10 * plan.total_duration <= 11 * plan.target_duration
        \/ plan.total_duration < plan.target_duration + LongestDuration(Pool)

\* the second pass added a clip that took the plan past twice the target
C26_Witness ==
    /\ ppc = "done" /\ phase2
    /\ target_duration > 0
    /\ plan.total_duration > 2 * plan.target_duration
    /\ Len(plan.highlights) >= 2

NonNegativePool == \A k \in DOMAIN Pool : Pool[k].duration >= 0

IsPrefix(s, whole) == Len(s) <= Len(whole) /\ s = SubSeq(whole, 1, Len(s))

\* C28: the first pass selects a prefix of the pool in ascending order of
\* duration: with non-negative durations, what it has selected is always the
\* beginning of the sorted pool, and once it has skipped a candidate by the
\* 110% rule it accepts no later candidate.
C28_Phase1SelectsPrefix ==
    [][(ppc = "phase1" /\ NonNegativePool) =>
           /\ IsPrefix(selected_highlights, SortByDuration(Pool))
           /\ (i > 0 => selected_highlights' = selected_highlights)]_vars

\* the first pass accepted a candidate, skipped the next and went on to skip
\* a later one
C28_Witness ==
    /\ ppc = "phase1"
    /\ NonNegativePool
    /\ selected_highlights # <<>>
    /\ i >= 2

(***************************************************************************)
(* Properties of two calls of plan_compilation (SpecTwoCalls)              *)
(***************************************************************************)
BothWithoutSecondPass ==
    /\ ppc = "done"
    /\ first_call # NoCall
    /\ ~phase2
    /\ ~first_call.phase2

ScenarioA == <<<<10, 20>>, <<19, 30>>, <<100, 110>>>>

IntervalsOfMerge(hs) == [k \in DOMAIN hs |-> <<Starts(hs[k]), Ends(hs[k])>>]
IntervalsOfPlan(p) ==
    [k \in DOMAIN p.highlights |-> <<p.highlights[k].start_time, p.highlights[k].end_time>>]

\* C21: scenario A: for the pool (10,20), (19,30), (100,110) of one source and
\* a target of 25 s, the merge yields (10,30) and (100,110), the second pass
\* of the selection runs, and the plan returned holds (10,30) and (100,110)
\* with an achieved duration of 30.
C21_ScenarioA ==
    (/\ highlights = AsCandidates(ScenarioA)
     /\ db_clips = <<ClipRow(1, "a", AsAnalysis(ScenarioA), FALSE)>>
     /\ target_duration = 25
     /\ mpc = "merged"
     /\ ppc = "done")
    => /\ IntervalsOfMerge(merged_highlights) = <<<<10, 30>>, <<100, 110>>>>
       /\ phase2
       /\ IntervalsOfPlan(plan) = <<<<10, 30>>, <<100, 110>>>>
       /\ plan.total_duration = 30

====
